---------------------------- MODULE Spec2Model ----------------------------
(***************************************************************************)
(* Model of main4.py: HostResult (rolling history and derived statistics), *)
(* the per-host prober threads (NetworkMonitor._ping_host), the renderer   *)
(* (NetworkMonitor._create_table / display) and NetworkMonitor.run.        *)
(*                                                                         *)
(* Numbers.  A Python float is modelled exactly, as a whole number of      *)
(* 1/Scale units (see Scale).  The latencies drawn below are whole numbers *)
(* of milliseconds, for which the sums are exact in binary floating point  *)
(* and the quotients compare as the exact values do.                       *)
(***************************************************************************)
EXTENDS Integers, Sequences, FiniteSets, TLC

VARIABLES
    history_size,   \* NetworkMonitor.history_size
    hosts,          \* keys of NetworkMonitor.results, in insertion order
    results,        \* NetworkMonitor.results: host -> HostResult
    ppc,            \* per host: position of the worker thread in _ping_host
    latency,        \* per host: the local variable latency of _ping_host
    main,           \* position of the main thread in run / display
    idx,            \* _create_table: index of the row being built (enumerate)
    row,            \* _create_table: the cells of the row being built
    table,          \* _create_table: the rows added so far (table.add_row)
    hosts_file,     \* the hosts file read at construction
    applied         \* history variable: per host, the arguments of the calls
                    \* of update made so far

vars == <<history_size, hosts, results, ppc, latency, main, idx, row, table,
          hosts_file, applied>>

---------------------------------------------------------------------------
(* Bounds of the model *)

\* updates applied to one record
MaxUpdates == 4
\* updates applied to one record in the interleaved (threaded) model
MaxProbes == 2
\* history capacities 1..MaxSmallH are explored beside the default
MaxSmallH == 3

(* Program constants *)

\* main(): history_size=10, also the default of HostResult.__init__
DefaultHistorySize == 10
\* _create_table: low_latency, medium_latency
low_latency == 50
medium_latency == 150

---------------------------------------------------------------------------
(* Values *)

Max(a, b) == IF a < b THEN b ELSE a

RECURSIVE GCD(_, _)
GCD(a, b) == IF b = 0 THEN a ELSE GCD(b, a % b)

RECURSIVE LcmUpTo(_)
LcmUpTo(n) ==
    IF n <= 1 THEN 1
    ELSE LET l == LcmUpTo(n - 1) IN (l * n) \div GCD(l, n)

\* A Python float x is the integer x * Scale.  Scale is a multiple of 1000
\* and of every window length of the model, so that the seconds ping
\* returns, the means and the rates of the model are all exact.
Scale == 1000 * LcmUpTo(Max(MaxUpdates, MaxProbes))

\* the float of the integer n
Float(n) == n * Scale

\* an Optional[float], and the False that ping returns for an error
None == [k |-> "None"]
Some(x) == [k |-> "float", v |-> x]
PyFalse == [k |-> "bool", b |-> FALSE]

\* a latency of ms milliseconds as ping returns it: ms / 1000 seconds
Seconds(ms) == Some((ms * Scale) \div 1000)

\* latency * 1000 for the latency that update is given: a float, or a bool
\* (an int in Python: False * 1000 is 0)
Times1000(lat) ==
    IF lat.k = "bool" THEN Float(IF lat.b THEN 1000 ELSE 0)
    ELSE lat.v * 1000

\* f"{x:.2f}" for x >= 0: the nearest number of hundredths (a tie to the
\* even one), printed with two decimals
Fmt2(x) ==
    LET q == (100 * x) \div Scale
        r == (100 * x) % Scale
        c == IF 2 * r > Scale \/ (2 * r = Scale /\ q % 2 = 1) THEN q + 1 ELSE q
    IN  ToString(c \div 100) \o "." \o
        (IF c % 100 < 10 THEN "0" ELSE "") \o ToString(c % 100)

---------------------------------------------------------------------------
(* collections.deque(maxlen=m) and the list functions used on it *)

\* a faulty deque.append: nothing is ever discarded
DequeAppendNoEvict(q, m, x) == Append(q, x)

\* deque.append: at capacity the leftmost element is discarded
DequeAppend(q, m, x) ==
    IF m = 0 THEN q
    ELSE IF Len(q) = m THEN Tail(q) \o <<x>>
    ELSE Append(q, x)

\* [lat for lat in history if lat is not None], as floats
SelectNonNone(h) ==
    LET kept == SelectSeq(h, LAMBDA lat : lat # None)
    IN  [j \in 1..Len(kept) |-> kept[j].v]

\* sum(xs)
SumSeq(xs) ==
    LET part[j \in 0..Len(xs)] == IF j = 0 THEN 0 ELSE part[j - 1] + xs[j]
    IN  part[Len(xs)]

\* max(xs) and min(xs), xs not empty
MaxSeq(xs) == CHOOSE x \in {xs[j] : j \in 1..Len(xs)} :
                  \A j \in 1..Len(xs) : xs[j] <= x
MinSeq(xs) == CHOOSE x \in {xs[j] : j \in 1..Len(xs)} :
                  \A j \in 1..Len(xs) : x <= xs[j]

---------------------------------------------------------------------------
(* class HostResult *)

\* the markup of latency_change ("[red]" up-arrow "[/]", "[green]" down-arrow "[/]")
TrendUp == "[red]up[/]"
TrendDown == "[green]down[/]"
TrendSame == "-"

\* HostResult.__init__
NewHostResult(host, name) ==
    [host |-> host, name |-> name, response |-> "unavailable",
     history |-> <<>>, avg_latency |-> 0, latency_change |-> "",
     host_name |-> host, success_rate |-> 0, test_count |-> 0,
     last_update |-> 0, jitter |-> 0]

\* update, line 32
UpdCount(r) == [r EXCEPT !.test_count = @ + 1]

\* update, line 33: last_update holds the ordinal of the clock reading (0 at
\* construction, n at the n-th update of the record)
UpdStamp(r) == [r EXCEPT !.last_update = r.test_count]

\* the value update appends to the history: None, or latency_ms
SampleOf(lat) == IF lat = None THEN None ELSE Some(Times1000(lat))

\* update, lines 36 and 40: the response label
NewResponse(lat) ==
    IF lat = None THEN "unavailable" ELSE Fmt2(Times1000(lat)) \o " ms"

UpdResponse(r, lat) == [r EXCEPT !.response = NewResponse(lat)]

\* update, lines 37 and 41
UpdAppend(r, lat, m) ==
    [r EXCEPT !.history = DequeAppend(@, m, SampleOf(lat))]

\* a faulty comparison: an equal average counts as an increase
NewTrendNonStrict(r, new_avg) ==
    IF r.avg_latency # 0
    THEN IF new_avg >= r.avg_latency THEN "[red]up[/]" ELSE "[green]down[/]"
    ELSE r.latency_change

\* a faulty comparison: made also against a prior average of 0
NewTrendFromZero(r, new_avg) ==
    IF new_avg > r.avg_latency THEN "[red]up[/]"
    ELSE IF new_avg < r.avg_latency THEN "[green]down[/]"
    ELSE "-"

\* calculate_metrics: the comparison of lines 50-56
NewTrend(r, new_avg) ==
    IF r.avg_latency # 0
    THEN IF new_avg > r.avg_latency THEN TrendUp
         ELSE IF new_avg < r.avg_latency THEN TrendDown
         ELSE TrendSame
    ELSE r.latency_change

\* calculate_metrics: new_avg of line 49
NewAvg(non_none_history) == SumSeq(non_none_history) \div Len(non_none_history)

\* a faulty jitter: newest minus oldest present sample
NewJitterFirstLast(non_none_history) ==
    non_none_history[Len(non_none_history)] - non_none_history[1]

\* calculate_metrics: jitter of line 58
NewJitter(non_none_history) ==
    MaxSeq(non_none_history) - MinSeq(non_none_history)

\* a faulty success_rate: over the lifetime count, not the window
NewSuccessRateLifetime(r, non_none_history) ==
    (((Len(non_none_history) * Scale) \div r.test_count)) * 100

\* calculate_metrics: success_rate of line 59
NewSuccessRate(r, non_none_history) ==
    (Float(Len(non_none_history)) \div Len(r.history)) * 100

\* calculate_metrics: its i-th assignment to a field, i = 1..4, in the order
\* of the branch taken
CalcStep(r, i) ==
    LET non_none_history == SelectNonNone(r.history)
    IN  IF non_none_history # <<>>
        THEN CASE i = 1 -> [r EXCEPT !.latency_change =
                                NewTrend(r, NewAvg(non_none_history))]
               [] i = 2 -> [r EXCEPT !.avg_latency = NewAvg(non_none_history)]
               [] i = 3 -> [r EXCEPT !.jitter = NewJitter(non_none_history)]
               [] i = 4 -> [r EXCEPT !.success_rate =
                                NewSuccessRate(r, non_none_history)]
        ELSE CASE i = 1 -> [r EXCEPT !.avg_latency = 0]
               [] i = 2 -> [r EXCEPT !.jitter = 0]
               [] i = 3 -> [r EXCEPT !.success_rate = 0]
               [] i = 4 -> [r EXCEPT !.latency_change = TrendSame]

\* a faulty calculate_metrics: the else branch keeps the last average
CalculateMetricsKeepAvg(r) ==
    LET non_none_history == SelectNonNone(r.history)
    IN  IF non_none_history # <<>>
        THEN [r EXCEPT
                !.latency_change = NewTrend(r, NewAvg(non_none_history)),
                !.avg_latency = NewAvg(non_none_history),
                !.jitter = NewJitter(non_none_history),
                !.success_rate = NewSuccessRate(r, non_none_history)]
        ELSE [r EXCEPT
                !.jitter = 0,
                !.success_rate = 0,
                !.latency_change = "-"]

\* HostResult.calculate_metrics, run without interruption
CalculateMetrics(r) ==
    LET non_none_history == SelectNonNone(r.history)
    IN  IF non_none_history # <<>>
        THEN [r EXCEPT
                !.latency_change = NewTrend(r, NewAvg(non_none_history)),
                !.avg_latency = NewAvg(non_none_history),
                !.jitter = NewJitter(non_none_history),
                !.success_rate = NewSuccessRate(r, non_none_history)]
        ELSE [r EXCEPT
                !.avg_latency = 0,
                !.jitter = 0,
                !.success_rate = 0,
                !.latency_change = TrendSame]

\* a faulty update: test_count follows the length of the window
UpdateCountWindow(r, lat, m) ==
    CalculateMetrics(
        [r EXCEPT !.test_count = Len(DequeAppend(r.history, m, SampleOf(lat))),
                  !.last_update = r.test_count + 1,
                  !.response = NewResponse(lat),
                  !.history = DequeAppend(@, m, SampleOf(lat))])

\* HostResult.update, run without interruption
Update(r, lat, m) ==
    CalculateMetrics(
        [r EXCEPT !.test_count = @ + 1,
                  !.last_update = r.test_count + 1,
                  !.response = NewResponse(lat),
                  !.history = DequeAppend(@, m, SampleOf(lat))])

---------------------------------------------------------------------------
(* NetworkMonitor._create_table: the cells of one row *)

Markup(style, text) == "[" \o style \o "]" \o text \o "[/" \o style \o "]"

\* line 177 (row_style) and line 191 (ping_response_style)
UnavailableStyle(response) == IF response = "unavailable" THEN "on red" ELSE ""

\* lines 179-189 and 199: the average-latency cell
AvgLatencyCell(response, avg_latency) ==
    IF response = "unavailable" \/ avg_latency = 0
    THEN Markup("on red", "N/A")
    ELSE LET avg_latency_display == Fmt2(avg_latency) \o " ms"
         IN  IF avg_latency <= Float(low_latency)
             THEN Markup("on green", avg_latency_display)
             ELSE IF avg_latency <= Float(medium_latency)
             THEN Markup("on yellow", avg_latency_display)
             ELSE Markup("on red", avg_latency_display)

\* line 198
ResponseCell(ping_response_style, response) ==
    IF ping_response_style # "" THEN Markup(ping_response_style, response)
    ELSE response

\* line 200
ChangeCell(latency_change) ==
    IF latency_change # "" THEN latency_change ELSE "-"

\* line 201
SuccessCell(history, success_rate) ==
    IF history # <<>> THEN Fmt2(success_rate) \o " %" ELSE "0.00 %"

\* line 204
JitterCell(jitter) ==
    IF jitter # 0 THEN Fmt2(jitter) \o " ms" ELSE "0.00 ms"

\* the locals of one iteration of the loop of line 174, before any is set
EmptyRow ==
    [row_style |-> "", avg |-> "", ping_response_style |-> "", idx |-> "",
     host |-> "", name |-> "", host_name |-> "", response |-> "",
     change |-> "", success |-> "", count |-> "", last_update |-> "",
     jitter |-> ""]

\* the places of one iteration at which the record is read, in program order
RowSteps == <<"s177", "s179", "s191", "s197", "s198", "s200", "s201", "s202",
              "s203", "s204">>

\* what the reads made at place pc of the iteration for index i add to the
\* row w, r being the record as it is at that moment
RowStep(pc, i, r, w) ==
    CASE pc = "s177" -> [w EXCEPT !.row_style = UnavailableStyle(r.response)]
      [] pc = "s179" -> [w EXCEPT !.avg = AvgLatencyCell(r.response, r.avg_latency)]
      [] pc = "s191" -> [w EXCEPT !.ping_response_style = UnavailableStyle(r.response)]
      [] pc = "s197" -> [w EXCEPT !.idx = ToString(i), !.host = r.host,
                                  !.name = r.name, !.host_name = r.host_name]
      [] pc = "s198" -> [w EXCEPT !.response =
                                ResponseCell(w.ping_response_style, r.response)]
      [] pc = "s200" -> [w EXCEPT !.change = ChangeCell(r.latency_change)]
      [] pc = "s201" -> [w EXCEPT !.success = SuccessCell(r.history, r.success_rate)]
      [] pc = "s202" -> [w EXCEPT !.count = ToString(r.test_count)]
      [] pc = "s203" -> [w EXCEPT !.last_update = ToString(r.last_update)]
      [] pc = "s204" -> [w EXCEPT !.jitter = JitterCell(r.jitter)]

RECURSIVE RowFrom(_, _, _, _)
RowFrom(n, i, r, w) ==
    IF n > Len(RowSteps) THEN w
    ELSE RowFrom(n + 1, i, r, RowStep(RowSteps[n], i, r, w))

\* the row of index i when every read of the iteration sees the record r
MakeRow(i, r) == RowFrom(1, i, r, EmptyRow)

\* a faulty _create_table: the rows sorted, most samples first
CreateTableByCount(keys, res) ==
    LET n == Len(keys)
        Before(i, j) ==
            \/ res[keys[i]].test_count > res[keys[j]].test_count
            \/ (res[keys[i]].test_count = res[keys[j]].test_count /\ i < j)
        perm == CHOOSE p \in [1..n -> 1..n] :
                    \A i, j \in 1..n : i < j => Before(p[i], p[j])
    IN  [i \in 1..n |-> MakeRow(i, res[keys[perm[i]]])]

\* _create_table run without interruption on the records res
CreateTable(keys, res) == [i \in 1..Len(keys) |-> MakeRow(i, res[keys[i]])]

---------------------------------------------------------------------------
(* NetworkMonitor.__init__ and _load_hosts *)

HostNames == {"a", "b"}

MissingFile == [exists |-> FALSE, lines |-> <<>>]
FileOf(lines) == [exists |-> TRUE, lines |-> lines]

\* the hosts files of the program run with its calls as steps
CallFiles == {MissingFile, FileOf(<<>>), FileOf(<<"a">>),
              FileOf(<<"a", "b">>), FileOf(<<"a", "a">>)}
\* the hosts files of the program run with its statements as steps
StatementFiles == {MissingFile, FileOf(<<>>), FileOf(<<"a">>),
                   FileOf(<<"a", "a">>)}
\* the hosts file of the single record under test
SingleFile == FileOf(<<"a">>)

RECURSIVE Keys(_)
\* the keys of the dict filled by results[host] = ... for host in lines, in
\* insertion order: a key assigned again keeps its place
Keys(lines) ==
    IF lines = <<>> THEN <<>>
    ELSE LET init == Keys(SubSeq(lines, 1, Len(lines) - 1))
             last == lines[Len(lines)]
         IN  IF \E j \in 1..Len(init) : init[j] = last THEN init
             ELSE Append(init, last)

Range(s) == {s[j] : j \in 1..Len(s)}

\* the state NetworkMonitor(hosts_file, history_size=m) leaves, or the state
\* in which its FileNotFoundError has ended the program
InitWith(files, sizes) ==
    /\ hosts_file \in files
    /\ history_size \in sizes
    /\ hosts = Keys(hosts_file.lines)
    /\ results = [h \in Range(hosts) |-> NewHostResult(h, "")]
    /\ ppc = [h \in Range(hosts) |-> "unstarted"]
    /\ latency = [h \in Range(hosts) |-> None]
    /\ applied = [h \in Range(hosts) |-> <<>>]
    /\ main = IF hosts_file.exists THEN "run" ELSE "crashed"
    /\ idx = 0
    /\ row = EmptyRow
    /\ table = <<>>

---------------------------------------------------------------------------
(* The worker threads: NetworkMonitor._start_pinging and _ping_host *)

\* round-trip times, in ms, that a probe of the running program measures
ThreadedRtts == {10}
\* round-trip times, in ms, applied to the single record under test
SingleRtts == {10, 15, 20, 50, 100, 200}

\* what ping(host, timeout=2) can return: the delay in seconds, None on a
\* timeout, False on an error it does not raise
PingReturns(rtts) == {None, PyFalse} \cup {Seconds(ms) : ms \in rtts}

\* the statements of update and calculate_metrics that write a field, in
\* program order, then the sleep of line 149
UpdateSteps == <<"l32", "l33", "l36", "l37", "cm1", "cm2", "cm3", "cm4">>

NextOf(steps, pc, last) ==
    LET n == CHOOSE j \in 1..Len(steps) : steps[j] = pc
    IN  IF n < Len(steps) THEN steps[n + 1] ELSE last

\* the record after the statement at pc
StepRecord(pc, r, lat, m) ==
    CASE pc = "l32" -> UpdCount(r)
      [] pc = "l33" -> UpdStamp(r)
      [] pc = "l36" -> UpdResponse(r, lat)
      [] pc = "l37" -> UpdAppend(r, lat, m)
      [] pc = "cm1" -> CalcStep(r, 1)
      [] pc = "cm2" -> CalcStep(r, 2)
      [] pc = "cm3" -> CalcStep(r, 3)
      [] pc = "cm4" -> CalcStep(r, 4)

\* the thread started at line 223 is running and the interpreter is not
\* shutting down
Pinging == main \notin {"run", "crashed", "exited", "interrupted"}

\* line 154: executor.submit starts a worker for the next host of the list
Submit(h) ==
    /\ Pinging
    /\ ppc[h] = "unstarted"
    /\ \A j \in 1..Len(hosts) :
          (\E i \in 1..Len(hosts) : i > j /\ hosts[i] = h) => ppc[hosts[j]] # "unstarted"
    /\ ppc' = [ppc EXCEPT ![h] = "resolve"]
    /\ UNCHANGED <<history_size, hosts, results, latency, main, idx, row,
                   table, hosts_file, applied>>

\* lines 138-139 and _resolve_hostname: the name found, the address on
\* socket.herror; any other error of gethostbyaddr is not caught and ends
\* the worker's task
Resolve(h) ==
    /\ ppc[h] = "resolve"
    /\ \/ /\ results' = [results EXCEPT ![h].host_name = "name-of-" \o h]
          /\ ppc' = [ppc EXCEPT ![h] = "ping"]
       \/ /\ results' = [results EXCEPT ![h].host_name = h]
          /\ ppc' = [ppc EXCEPT ![h] = "ping"]
       \/ /\ results' = results
          /\ ppc' = [ppc EXCEPT ![h] = "dead"]
    /\ UNCHANGED <<history_size, hosts, latency, main, idx, row, table,
                   hosts_file, applied>>

\* a faulty probe: one call of ping at a time, over all hosts
PingIssueSerial(h) ==
    /\ ppc[h] = "ping"
    /\ \A g \in Range(hosts) : ppc[g] # "pinging"
    /\ results[h].test_count < MaxProbes
    /\ ppc' = [ppc EXCEPT ![h] = "pinging"]
    /\ UNCHANGED <<history_size, hosts, results, latency, main, idx, row,
                   table, hosts_file, applied>>

\* line 143: the call of ping is made
PingIssue(h) ==
    /\ ppc[h] = "ping"
    /\ results[h].test_count < MaxProbes
    /\ ppc' = [ppc EXCEPT ![h] = "pinging"]
    /\ UNCHANGED <<history_size, hosts, results, latency, main, idx, row,
                   table, hosts_file, applied>>

\* a faulty handler: an exception of ping is not caught and ends the task
PingReturnUncaught(h) ==
    /\ ppc[h] = "pinging"
    /\ \/ /\ \E v \in PingReturns(ThreadedRtts) :
                latency' = [latency EXCEPT ![h] = v]
          /\ ppc' = [ppc EXCEPT ![h] = "l32"]
       \/ /\ latency' = latency
          /\ ppc' = [ppc EXCEPT ![h] = "dead"]
    /\ UNCHANGED <<history_size, hosts, results, main, idx, row, table,
                   hosts_file, applied>>

\* lines 143-146: ping returns a value, or raises and latency is None
PingReturn(h) ==
    /\ ppc[h] = "pinging"
    /\ \/ \E v \in PingReturns(ThreadedRtts) : latency' = [latency EXCEPT ![h] = v]
       \/ latency' = [latency EXCEPT ![h] = None]
    /\ ppc' = [ppc EXCEPT ![h] = "l32"]
    /\ UNCHANGED <<history_size, hosts, results, main, idx, row, table,
                   hosts_file, applied>>

\* line 148: one statement of host_result.update(latency)
UpdateStep(h) ==
    /\ ppc[h] \in Range(UpdateSteps)
    /\ results' = [results EXCEPT
                     ![h] = StepRecord(ppc[h], @, latency[h], history_size)]
    /\ applied' = IF ppc[h] = "l32"
                  THEN [applied EXCEPT ![h] = Append(@, latency[h])]
                  ELSE applied
    /\ ppc' = [ppc EXCEPT ![h] = NextOf(UpdateSteps, ppc[h], "sleep")]
    /\ UNCHANGED <<history_size, hosts, latency, main, idx, row, table,
                   hosts_file>>

\* a faulty worker: every worker holds the record of the last host
UpdateCallLastHost(h) ==
    /\ ppc[h] = "l32"
    /\ results' = [results EXCEPT
                     ![hosts[Len(hosts)]] = Update(@, latency[h], history_size)]
    /\ applied' = [applied EXCEPT ![h] = Append(@, latency[h])]
    /\ ppc' = [ppc EXCEPT ![h] = "sleep"]
    /\ UNCHANGED <<history_size, hosts, latency, main, idx, row, table,
                   hosts_file>>

\* line 148 as one step: the whole of host_result.update(latency)
UpdateCall(h) ==
    /\ ppc[h] = "l32"
    /\ results' = [results EXCEPT ![h] = Update(@, latency[h], history_size)]
    /\ applied' = [applied EXCEPT ![h] = Append(@, latency[h])]
    /\ ppc' = [ppc EXCEPT ![h] = "sleep"]
    /\ UNCHANGED <<history_size, hosts, latency, main, idx, row, table,
                   hosts_file>>

\* line 149: time.sleep(self.ping_interval) returns
Sleep(h) ==
    /\ ppc[h] = "sleep"
    /\ ppc' = [ppc EXCEPT ![h] = "ping"]
    /\ UNCHANGED <<history_size, hosts, results, latency, main, idx, row,
                   table, hosts_file, applied>>

---------------------------------------------------------------------------
(* The main thread: NetworkMonitor.run, display and _create_table *)

\* a faulty run: the list of hosts is not tested
RunStartUnchecked ==
    /\ main = "run"
    /\ main' = "create"
    /\ UNCHANGED <<history_size, hosts, results, ppc, latency, idx, row,
                   table, hosts_file, applied>>

\* lines 218-223
RunStart ==
    /\ main = "run"
    /\ main' = IF hosts = <<>> THEN "exited" ELSE "create"
    /\ UNCHANGED <<history_size, hosts, results, ppc, latency, idx, row,
                   table, hosts_file, applied>>

\* lines 157-174: a call of _create_table begins (from line 211 or 213)
BeginTable ==
    /\ main = "create"
    /\ main' = "s177"
    /\ idx' = 1
    /\ row' = EmptyRow
    /\ table' = <<>>
    /\ UNCHANGED <<history_size, hosts, results, ppc, latency, hosts_file,
                   applied>>

\* a faulty _create_table: line 200 stores the "-" it shows in the record
ReadRecordNormalising ==
    /\ main \in Range(RowSteps)
    /\ LET w == RowStep(main, idx, results[hosts[idx]], row)
       IN  IF main = "s204"
           THEN /\ table' = Append(table, w)
                /\ row' = EmptyRow
                /\ idx' = idx + 1
                /\ main' = IF idx < Len(hosts) THEN "s177" ELSE "return"
           ELSE /\ row' = w
                /\ main' = NextOf(RowSteps, main, "return")
                /\ UNCHANGED <<table, idx>>
    /\ results' = IF main = "s200"
                  THEN [results EXCEPT ![hosts[idx]].latency_change =
                                           ChangeCell(@)]
                  ELSE results
    /\ UNCHANGED <<history_size, hosts, ppc, latency, hosts_file, applied>>

\* lines 175-206: the reads of one place of the iteration; after those of
\* line 204 the row is added and the loop goes on or ends
ReadRecord ==
    /\ main \in Range(RowSteps)
    /\ LET w == RowStep(main, idx, results[hosts[idx]], row)
       IN  IF main = "s204"
           THEN /\ table' = Append(table, w)
                /\ row' = EmptyRow
                /\ idx' = idx + 1
                /\ main' = IF idx < Len(hosts) THEN "s177" ELSE "return"
           ELSE /\ row' = w
                /\ main' = NextOf(RowSteps, main, "return")
                /\ UNCHANGED <<table, idx>>
    /\ UNCHANGED <<history_size, hosts, results, ppc, latency, hosts_file,
                   applied>>

\* _create_table as one step
TableCall ==
    /\ main = "create"
    /\ main' = "return"
    /\ table' = CreateTable(hosts, results)
    /\ UNCHANGED <<history_size, hosts, results, ppc, latency, idx, row,
                   hosts_file, applied>>

\* lines 208 and 211/213: the table is returned and handed to Live
LiveUpdate ==
    /\ main = "return"
    /\ main' = "sleep"
    /\ table' = <<>>
    /\ idx' = 0
    /\ UNCHANGED <<history_size, hosts, results, ppc, latency, row,
                   hosts_file, applied>>

\* line 214: time.sleep(1) returns
Wake ==
    /\ main = "sleep"
    /\ main' = "create"
    /\ UNCHANGED <<history_size, hosts, results, ppc, latency, idx, row,
                   table, hosts_file, applied>>

\* lines 225-226: KeyboardInterrupt reaches the main thread inside the try
\* of run; run returns.  Nothing in the program tells the workers.
Interrupt ==
    /\ main \notin {"crashed", "exited", "interrupted"}
    /\ main' = "interrupted"
    /\ idx' = 0
    /\ row' = EmptyRow
    /\ table' = <<>>
    /\ UNCHANGED <<history_size, hosts, results, ppc, latency, hosts_file,
                   applied>>

---------------------------------------------------------------------------
(* The program, the statements of update and of _create_table as steps *)

StatementSizes == {1, DefaultHistorySize}

Init == InitWith(StatementFiles, StatementSizes)

Next ==
    \/ \E h \in Range(hosts) : Submit(h)
    \/ \E h \in Range(hosts) : Resolve(h)
    \/ \E h \in Range(hosts) : PingIssue(h)
    \/ \E h \in Range(hosts) : PingReturn(h)
    \/ \E h \in Range(hosts) : UpdateStep(h)
    \/ \E h \in Range(hosts) : Sleep(h)
    \/ RunStart
    \/ BeginTable
    \/ ReadRecord
    \/ LiveUpdate
    \/ Wake
    \/ Interrupt

Spec == Init /\ [][Next]_vars

---------------------------------------------------------------------------
(* The program, each call of update and of _create_table as one step *)

CallSizes == {DefaultHistorySize}

CallInit == InitWith(CallFiles, CallSizes)

CallNext ==
    \/ \E h \in Range(hosts) : Submit(h)
    \/ \E h \in Range(hosts) : Resolve(h)
    \/ \E h \in Range(hosts) : PingIssue(h)
    \/ \E h \in Range(hosts) : PingReturn(h)
    \/ \E h \in Range(hosts) : UpdateCall(h)
    \/ \E h \in Range(hosts) : Sleep(h)
    \/ RunStart
    \/ TableCall
    \/ LiveUpdate
    \/ Wake
    \/ Interrupt

CallSpec == CallInit /\ [][CallNext]_vars

(* One record under test: calls of update with any arguments, and calls of
   _create_table between them *)

SingleSizes == 1..MaxSmallH \cup {DefaultHistorySize}

SingleInit == InitWith({SingleFile}, SingleSizes)

\* host_result.update(lat); the table of an earlier call is dropped
CallUpdate(h) ==
    /\ results[h].test_count < MaxUpdates
    /\ \E lat \in PingReturns(SingleRtts) :
          /\ results' = [results EXCEPT ![h] = Update(@, lat, history_size)]
          /\ applied' = [applied EXCEPT ![h] = Append(@, lat)]
    /\ table' = <<>>
    /\ UNCHANGED <<history_size, hosts, ppc, latency, main, idx, row,
                   hosts_file>>

\* self._create_table()
CallCreateTable ==
    /\ table = <<>>
    /\ table' = CreateTable(hosts, results)
    /\ UNCHANGED <<history_size, hosts, results, ppc, latency, main, idx,
                   row, hosts_file, applied>>

SingleNext ==
    \/ \E h \in Range(hosts) : CallUpdate(h)
    \/ CallCreateTable

SingleSpec == SingleInit /\ [][SingleNext]_vars

---------------------------------------------------------------------------
(* Scheduling.  Every thread that can take a step is eventually given the
   processor: the worker of each host, and the main thread.  Nothing makes
   an interrupt arrive. *)

\* the next step of the worker thread of host h
WorkerStep(h) ==
    /\ h \in Range(hosts)
    /\ Submit(h) \/ Resolve(h) \/ PingIssue(h) \/ PingReturn(h)
       \/ UpdateCall(h) \/ Sleep(h)

\* the next step of the main thread
MainStep == RunStart \/ TableCall \/ LiveUpdate \/ Wake

FairSpec ==
    /\ CallSpec
    /\ \A h \in HostNames : WF_vars(WorkerStep(h))
    /\ WF_vars(MainStep)

\* the host whose probe call may stall in StallSpec
StalledHost == "a"

\* the next step of the worker thread of host h, the return of its call of
\* ping excepted
WorkerStepButReturn(h) ==
    /\ h \in Range(hosts)
    /\ Submit(h) \/ Resolve(h) \/ PingIssue(h) \/ UpdateCall(h) \/ Sleep(h)

\* as FairSpec, but a call of ping made for StalledHost need never return
StallSpec ==
    /\ CallSpec
    /\ \A h \in HostNames \ {StalledHost} : WF_vars(WorkerStep(h))
    /\ WF_vars(WorkerStepButReturn(StalledHost))
    /\ WF_vars(MainStep)

---------------------------------------------------------------------------
(* Claims *)

\* the worker of h is inside the loop of line 141
InLoop(h) ==
    /\ h \in Range(hosts)
    /\ ppc[h] \in {"ping", "pinging", "sleep"} \cup Range(UpdateSteps)

\* the worker of h is running _ping_host
Running(h) == InLoop(h) \/ (h \in Range(hosts) /\ ppc[h] = "resolve")

CountIs(h, n) == h \in Range(hosts) /\ results[h].test_count = n

Last(s) == s[Len(s)]

AllAbsent(history) == \A j \in 1..Len(history) : history[j] = None

\* the record of a host after the calls update(lats[1]), ..., update(lats[n])
RECURSIVE RecordAfter(_, _, _)
RecordAfter(h, lats, m) ==
    IF lats = <<>> THEN NewHostResult(h, "")
    ELSE Update(RecordAfter(h, SubSeq(lats, 1, Len(lats) - 1), m), Last(lats), m)

\* the states of the record of h between its update cycles, up to the cycle
\* now under way
CycleStates(h) ==
    {RecordAfter(h, SubSeq(applied[h], 1, n), history_size) :
        n \in 0..Len(applied[h])}

\* host_name is written once, before the first cycle
SansHostName(w) == [w EXCEPT !.host_name = ""]

\* the statements of update, run one by one, leave what update leaves
UpdateStepsAgree ==
    \A h \in Range(hosts) :
        ppc[h] \in {"ping", "pinging", "sleep"} =>
            SansHostName(results[h]) =
                SansHostName(RecordAfter(h, applied[h], history_size))

(* C1: every row of a table being built shows the record of its host as it
   was between two update cycles of that host: there is one cycle state of
   the record from which all the cells of the row come. *)
C1_NoTornRow ==
    \A i \in 1..Len(table) :
        \E r \in CycleStates(hosts[i]) :
            SansHostName(table[i]) = SansHostName(MakeRow(i, r))

(* C2: after every update made for a failed probe (ping raised, or returned
   something that is not a latency: None or False) the response label is
   "unavailable" and the entry appended to the history is absent. *)
C2_FailedProbeIsAbsent ==
    \A h \in Range(hosts) :
        (ppc[h] = "sleep" /\ Last(applied[h]).k # "float") =>
            /\ results[h].response = "unavailable"
            /\ Last(results[h].history) = None

(* C3: a prober inside its loop never leaves it, whatever its probes return
   or raise, and under fair scheduling it goes on applying samples: its
   test_count reaches every value up to the bound of the model. *)
C3_ProberNeverStops ==
    /\ [][\A h \in HostNames : InLoop(h) => InLoop(h)']_vars
    /\ \A h \in HostNames : []<>(~InLoop(h) \/ CountIs(h, MaxProbes))

\* a prober still in its loop after a probe that failed and one that did not
C3_Witness ==
    \E h \in Range(hosts) :
        /\ InLoop(h)
        /\ results[h].test_count = MaxProbes
        /\ \E i, j \in 1..Len(applied[h]) :
              applied[h][i] = None /\ applied[h][j].k = "float"

(* C4: when the probe call of StalledHost may never return, under fair
   scheduling of everything else every other prober in its loop goes on
   applying samples up to the bound of the model, and the main thread,
   while it displays, finishes a table again and again. *)
C4_StallDelaysOnlyItsHost ==
    /\ \A h \in HostNames \ {StalledHost} :
          []<>(~InLoop(h) \/ CountIs(h, MaxProbes))
    /\ []<>(main \in {"return", "interrupted", "exited", "crashed"})

\* the first probe of StalledHost has not returned, the other host has had
\* all its samples applied and a table is finished
C4_Witness ==
    /\ Range(hosts) = HostNames
    /\ ppc[StalledHost] = "pinging"
    /\ results[StalledHost].test_count = 0
    /\ \A h \in HostNames \ {StalledHost} : results[h].test_count = MaxProbes
    /\ main = "return"
    /\ Len(table) = 2

(* C5: after a KeyboardInterrupt caught in run, every prober task
   eventually stops. *)
C5_ProbersStopAfterInterrupt ==
    (main = "interrupted") ~> (\A h \in HostNames : ~Running(h))

(* C6: the history holds the last min(n, H) samples of the n applied, in
   the order they were applied: its length is min(n, H), never more than
   the capacity H. *)
C6_HistoryIsLastSamples ==
    \A h \in Range(hosts) :
        LET n == Len(applied[h])
            len == Len(results[h].history)
        IN  /\ len = (IF n < history_size THEN n ELSE history_size)
            /\ len <= history_size
            /\ \A j \in 1..len :
                  results[h].history[j] = SampleOf(applied[h][n - len + j])

\* capacity 3 after 100 ms, absent, 50 ms, 200 ms: the first is evicted
C6_Witness ==
    /\ history_size = 3
    /\ applied["a"] = <<Seconds(100), None, Seconds(50), Seconds(200)>>
    /\ results["a"].history = <<None, Some(Float(50)), Some(Float(200))>>

(* C7: success_rate is 100 * present / length over the current window, and
   0 on a record with an empty history. *)
C7_SuccessRateOfWindow ==
    \A h \in Range(hosts) :
        LET r == results[h]
            n == Len(r.history)
            p == Cardinality({j \in 1..n : r.history[j] # None})
        IN  IF n = 0 THEN r.success_rate = 0
            ELSE r.success_rate * n = Float(100 * p)

\* two of three present in the window, after more updates than the window holds
C7_Witness ==
    \E h \in Range(hosts) :
        /\ results[h].test_count > Len(results[h].history)
        /\ Len(results[h].history) = 3
        /\ Fmt2(results[h].success_rate) = "66.67"

(* C8: when the window holds a present sample, avg_latency is the mean of
   its present samples and jitter is their largest minus their smallest. *)
C8_MeanAndRange ==
    \A h \in Range(hosts) :
        LET r == results[h]
            xs == SelectNonNone(r.history)
            J == 1..Len(xs)
        IN  xs # <<>> =>
              /\ r.avg_latency * Len(xs) = SumSeq(xs)
              /\ \A i, j \in J : xs[i] - xs[j] <= r.jitter
              /\ \E i, j \in J : xs[i] - xs[j] = r.jitter

\* an absent entry before two present ones, a sample evicted: mean 125 ms,
\* jitter 150 ms
C8_Witness ==
    \E h \in Range(hosts) :
        /\ results[h].test_count > Len(results[h].history)
        /\ results[h].history[1] = None
        /\ results[h].avg_latency = Float(125)
        /\ results[h].jitter = Float(150)

(* C9: when every entry of the window is absent, the record has response
   "unavailable", avg_latency 0, jitter 0 and success_rate 0, and a table
   made then shows the average of the host as N/A on red. *)
C9_AllAbsentWindow ==
    \A h \in Range(hosts) :
        LET r == results[h]
        IN  (r.history # <<>> /\ AllAbsent(r.history)) =>
              /\ r.response = "unavailable"
              /\ r.avg_latency = 0
              /\ r.jitter = 0
              /\ r.success_rate = 0
              /\ \A i \in 1..Len(table) :
                    hosts[i] = h => table[i].avg = "[on red]N/A[/on red]"

\* a window of absent entries only, its present samples evicted, and a table
C9_Witness ==
    \E h \in Range(hosts) :
        /\ results[h].history # <<>>
        /\ AllAbsent(results[h].history)
        /\ \E j \in 1..Len(applied[h]) : applied[h][j].k = "float"
        /\ table # <<>>

\* the latencies 10, 20, 15 ms, and what has been fed of them
Fed == <<Seconds(10), Seconds(20), Seconds(15)>>
FedSoFar(h, n) ==
    history_size = DefaultHistorySize /\ applied[h] = SubSeq(Fed, 1, n)

(* C10, as claimed: 10, 20, 15 ms fed to a fresh record of capacity 10
   leave the trend unset, then increasing, then decreasing. *)
C10_TrendsAsClaimed ==
    \A h \in Range(hosts) :
        /\ FedSoFar(h, 1) => results[h].latency_change = ""
        /\ FedSoFar(h, 2) => results[h].latency_change = TrendUp
        /\ FedSoFar(h, 3) => results[h].latency_change = TrendDown

(* C10, amended: 10, 20, 15 ms fed to a fresh record of capacity 10 leave
   the trend unset, then increasing, then unchanged (the averages are 10,
   15, 15); after the second and the third update the trend is increasing
   iff the new average strictly exceeds the one before, decreasing iff it
   is strictly less, and unchanged otherwise. *)
C10_Trends ==
    /\ [](\A h \in Range(hosts) :
            /\ FedSoFar(h, 1) => results[h].latency_change = ""
            /\ FedSoFar(h, 2) => results[h].latency_change = TrendUp
            /\ FedSoFar(h, 3) => results[h].latency_change = TrendSame)
    /\ [][\A h \in Range(hosts) :
            ((FedSoFar(h, 1) /\ FedSoFar(h, 2)') \/ (FedSoFar(h, 2) /\ FedSoFar(h, 3)'))
            => LET old == results[h].avg_latency
                   new == results'[h].avg_latency
                   t == results'[h].latency_change
               IN  /\ (t = TrendUp) <=> (new > old)
                   /\ (t = TrendDown) <=> (new < old)
                   /\ (t = TrendSame) <=> (new = old)]_vars

\* all three fed: the averages 15 and 15, the trend unchanged
C10_Witness ==
    \E h \in Range(hosts) :
        /\ FedSoFar(h, 3)
        /\ results[h].avg_latency = Float(15)
        /\ results[h].latency_change = TrendSame

(* C11: test_count is 0 on a fresh record and is the number of updates
   applied so far, also when that number exceeds the capacity of the
   history; every step leaves it as it is or adds exactly 1, together with
   one more update applied. *)
C11_CountIsUpdates ==
    /\ [](\A h \in Range(hosts) : results[h].test_count = Len(applied[h]))
    /\ [][\A h \in Range(hosts) :
            \/ /\ results'[h].test_count = results[h].test_count
               /\ applied'[h] = applied[h]
            \/ /\ results'[h].test_count = results[h].test_count + 1
               /\ Len(applied'[h]) = Len(applied[h]) + 1]_vars

\* three updates, a present, an absent and a present one, at capacity 2:
\* the window is full and the count has passed it
C11_Witness ==
    \E h \in Range(hosts) :
        /\ history_size = 2
        /\ applied[h] = <<Seconds(10), None, Seconds(20)>>
        /\ Len(results[h].history) = 2
        /\ results[h].test_count = 3

\* the average-latency cell for a window whose present samples are xs: N/A
\* without any, else their mean in the style of its bucket
AvgCellOfWindow(xs) ==
    IF xs = <<>> THEN "[on red]N/A[/on red]"
    ELSE LET mean == SumSeq(xs) \div Len(xs)
             text == Fmt2(mean) \o " ms"
         IN  IF mean <= Float(low_latency)
             THEN "[on green]" \o text \o "[/on green]"
             ELSE IF mean <= Float(medium_latency)
             THEN "[on yellow]" \o text \o "[/on yellow]"
             ELSE "[on red]" \o text \o "[/on red]"

(* C12: in every table, for a host that has been given latencies and
   timeouts only, the average-latency cell is N/A exactly when the window
   of the host holds no present sample, and is otherwise the formatted
   average in the style of its bucket (<= 50, <= 150, > 150 ms), also when
   the last probe failed. *)
C12_AvgCellFollowsWindow ==
    \A i \in 1..Len(table) :
        LET h == hosts[i]
        IN  (\A j \in 1..Len(applied[h]) : applied[h][j].k # "bool") =>
                table[i].avg = AvgCellOfWindow(SelectNonNone(results[h].history))

(* C13: every step of the main thread (run, display, _create_table: the
   steps that move main, idx, row or table) leaves every field of every
   record, the set of records and the order of the hosts as they were,
   whatever the workers are doing. *)
C13_RenderingWritesNoRecord ==
    [][(<<main, idx, row, table>>' # <<main, idx, row, table>>) =>
           (results' = results /\ hosts' = hosts)]_vars

\* a table finished while an update of its host is under way, the row
\* showing the count that update has written
C13_Witness ==
    /\ main = "return"
    /\ Len(table) = 1
    /\ ppc[hosts[1]] \in Range(UpdateSteps)
    /\ table[1].count = "1"

(* C14: the hosts are the distinct lines of the hosts file in the order of
   their first occurrence, and every finished table has one row per host,
   the i-th row being that of the i-th host and numbered i, whatever
   samples the workers have applied. *)
C14_RowsInInsertionOrder ==
    /\ hosts = Keys(hosts_file.lines)
    /\ main = "return" =>
          /\ Len(table) = Len(hosts)
          /\ \A i \in 1..Len(table) :
                table[i].host = hosts[i] /\ table[i].idx = ToString(i)

\* two hosts, the second with more samples applied than the first and a
\* failed last probe, the first still first in the table
C14_Witness ==
    /\ hosts = <<"a", "b">>
    /\ main = "return"
    /\ results["b"].test_count > results["a"].test_count
    /\ results["b"].response = "unavailable"
    /\ results["a"].response # "unavailable"
    /\ table[1].host = "a"
    /\ table[2].host = "b"

(* C15: when the hosts file cannot be read or yields no host, the main
   thread never gets past the test of line 219: the thread of line 223 is
   never started, no call of _create_table is made and no worker exists;
   and under fair scheduling the program ends (run returns, or the
   constructor's exception ends it). *)
C15_NoHostsNoMonitoring ==
    /\ [](hosts = <<>> =>
            /\ main \in {"run", "exited", "crashed", "interrupted"}
            /\ ~hosts_file.exists => main = "crashed"
            /\ ~Pinging
            /\ table = <<>> /\ idx = 0
            /\ \A h \in HostNames : h \notin DOMAIN ppc)
    /\ <>(hosts # <<>> \/ main \in {"exited", "crashed", "interrupted"})

\* a hosts file without a line: run has returned at line 221
C15_Witness ==
    /\ hosts_file = FileOf(<<>>)
    /\ hosts = <<>>
    /\ main = "exited"

(* C16: on every update, if the window then holds a present sample the
   trend is decided against the average held before the update: with that
   average nonzero it becomes increasing, decreasing or unchanged as the
   mean of the window is greater, less or equal; with that average zero it
   keeps its value; and if the window holds no present sample the trend
   becomes unchanged ("-"). *)
C16_TrendAgainstPriorAverage ==
    [][\A h \in Range(hosts) :
          applied'[h] # applied[h] =>
             LET prior == results[h].avg_latency
                 xs == SelectNonNone(results'[h].history)
                 trend == results'[h].latency_change
             IN  IF xs = <<>> THEN trend = TrendSame
                 ELSE IF prior # 0
                 THEN LET mean == SumSeq(xs) \div Len(xs)
                      IN  /\ mean > prior => trend = TrendUp
                          /\ mean < prior => trend = TrendDown
                          /\ mean = prior => trend = TrendSame
                 ELSE trend = results[h].latency_change]_vars

\* a timeout, then 20 ms and 10 ms: the update that found the prior average
\* 0 kept the "-" of the all-absent window, the next one compared 15 to 20
C16_Witness ==
    \E h \in Range(hosts) :
        /\ history_size = DefaultHistorySize
        /\ applied[h] = <<None, Seconds(20), Seconds(10)>>
        /\ results[h].latency_change = TrendDown

(* C17: the hosts that get a worker are distinct, and every step that
   changes the record of a host is a step of the worker of that host, at
   line 139 or line 148: it leaves the records and the workers of all other
   hosts, and the main thread, as they were. *)
C17_OneWriterPerRecord ==
    /\ [](Cardinality(Range(hosts)) = Len(hosts))
    /\ [][\A h \in Range(hosts) :
            results'[h] # results[h] =>
               /\ ppc[h] \in {"resolve", "l32"}
               /\ ppc'[h] # ppc[h]
               /\ \A g \in Range(hosts) \ {h} :
                     results'[g] = results[g] /\ ppc'[g] = ppc[g]
               /\ <<main, idx, row, table>>' = <<main, idx, row, table>>]_vars

\* two hosts, each record written by its own worker with its own result
C17_Witness ==
    /\ hosts = <<"a", "b">>
    /\ applied["a"] = <<None>>
    /\ applied["b"] = <<Seconds(10)>>
    /\ results["a"].response = "unavailable"
    /\ results["b"].response = "10.00 ms"
    /\ results["a"].host_name = "a"
    /\ results["b"].host_name = "name-of-b"

(* C18: whenever the lookup made at line 139 ends, the worker is in its
   probing loop and the host name is the name found or, on any failure of
   the lookup, the address; and under fair scheduling every started worker
   eventually applies a first sample (test_count >= 1). *)
C18_ResolveFailureFallsBack ==
    /\ [][\A h \in Range(hosts) :
            (ppc[h] = "resolve" /\ ppc'[h] # "resolve") =>
               /\ InLoop(h)'
               /\ results'[h].host_name \in {h, "name-of-" \o h}]_vars
    /\ \A h \in HostNames :
          []<>(\/ h \notin Range(hosts)
               \/ ppc[h] = "unstarted"
               \/ results[h].test_count >= 1)

(* C19: for every hosts file that can be read, the monitor holds one record
   per line of the file, in the order of the lines, also when a line occurs
   more than once (the workers are started one per record held); and every
   finished table has one row per line, in that order. *)
C19_OneRecordPerEntry ==
    hosts_file.exists =>
        /\ Len(hosts) = Len(hosts_file.lines)
        /\ hosts = hosts_file.lines
        /\ main = "return" =>
              /\ Len(table) = Len(hosts_file.lines)
              /\ \A i \in 1..Len(table) : table[i].host = hosts_file.lines[i]

(* C20: between updates, the response label of a record is "unavailable"
   exactly when its history has a last entry and that entry is absent; and
   in every table the row of a host with an empty history carries neither
   the red row style nor the marked "unavailable" response. *)
C20_UnavailableIffLastProbeFailed ==
    /\ \A h \in Range(hosts) :
          (results[h].response = "unavailable") <=>
              (results[h].history # <<>> /\ Last(results[h].history) = None)
    /\ \A i \in 1..Len(table) :
          results[hosts[i]].history = <<>> =>
              /\ table[i].row_style = ""
              /\ table[i].response # "[on red]unavailable[/on red]"

=============================================================================
